---------------------------- MODULE Spec2Model ----------------------------
(***************************************************************************)
(* Schedule-driven control of the RelayLight relay: the on-demand check    *)
(* (RevPiController.check_schedule), the polling daemon (ScheduleDaemon),  *)
(* the Schedule store and the RevPi device driver.                         *)
(*                                                                         *)
(* Time strings are sequences of one-character strings ("0".."9", ":"),    *)
(* parsed the way the code parses them (split(':') then int()).  An        *)
(* instant is [date, h, m]: datetime.now() truncated to the minute.  The   *)
(* truncation is exact for the comparisons made here, because every        *)
(* schedule time is a whole minute (dt_time(hour, minute)): for such a     *)
(* bound b and a time c, b <= c iff b <= floor(c) and c < b iff            *)
(* floor(c) < b.  The model day has MaxHour+1 hours of MaxMinute+1         *)
(* minutes; date 0 is a Monday.                                            *)
(***************************************************************************)
EXTENDS Integers, Sequences, FiniteSets, TLC

VARIABLES
    clock,              \* the wall clock: [date, h, m]
    device_schedules,   \* table device_schedules: set of rows
    schedule_days,      \* table schedule_days: rows [schedule_id, day_of_week]
    next_id,            \* AUTOINCREMENT counter of device_schedules
    schedules,          \* table schedules of the daemon's database file
    relay,              \* the physical RelayLight output: "ON" / "OFF"
    last_state,         \* ScheduleDaemon.last_state: "None" / "on" / "off"
    last_check_date,    \* ScheduleDaemon.last_check_date: a date, NoDate for None
    last,               \* what the last handler run did (history)
    esched,             \* evaluator harness: the schedule under evaluation
    enow,               \* evaluator harness: the instant under evaluation
    ecur,               \* evaluator harness: results at enow
    eprev,              \* evaluator harness: results at the instant before
    conns,              \* store harness: the request each connection is serving
    wtx,                \* store harness: the open write transaction
    saved,              \* store harness: day list of the last committed save, by id
    alog,               \* log harness: table relay_activations, in insertion order
    aout,               \* log harness: the last answer of the list query
    attempts,           \* RateLimiter.attempts of each worker process, for one key
    rtime               \* time.time(), in seconds

vars == <<clock, device_schedules, schedule_days, next_id, schedules, relay,
          last_state, last_check_date, last, esched, enow, ecur, eprev,
          conns, wtx, saved, alog, aout, attempts, rtime>>

sysvars == <<clock, device_schedules, schedule_days, next_id, schedules, relay,
             last_state, last_check_date, last>>

evars == <<esched, enow, ecur, eprev>>

stvars == <<conns, wtx, saved>>

lvars == <<alog, aout>>

rvars == <<attempts, rtime>>

-----------------------------------------------------------------------------
(* Bounds of the model *)

MaxHour == 1        \* hours of the model day: 0..MaxHour
MaxMinute == 1      \* minutes of the model hour: 0..MaxMinute
MaxDate == 1        \* dates the clock runs through: 0..MaxDate
NumDays == 2        \* day lists are drawn from the first NumDays weekdays

-----------------------------------------------------------------------------
(* Characters, strings and the parsing of HH:MM *)

Digits == <<"0", "1", "2", "3", "4", "5", "6", "7", "8", "9">>

IsDigit(c) == \E i \in 1..10 : Digits[i] = c

DigitVal(c) == (CHOOSE i \in 1..10 : Digits[i] = c) - 1

\* str.split(':'): the segments between the colons (never an empty list)
RECURSIVE Split(_)
Split(s) ==
    IF \A i \in 1..Len(s) : s[i] # ":"
    THEN <<s>>
    ELSE LET k == CHOOSE i \in 1..Len(s) :
                      s[i] = ":" /\ \A j \in 1..(i - 1) : s[j] # ":"
         IN  <<SubSeq(s, 1, k - 1)>> \o Split(SubSeq(s, k + 1, Len(s)))

\* int(): the value of a digit string; ValueError (here -1) otherwise
RECURSIVE PyInt(_)
PyInt(s) ==
    IF Len(s) = 0 \/ \E i \in 1..Len(s) : ~IsDigit(s[i])
    THEN -1
    ELSE IF Len(s) = 1
         THEN DigitVal(s[1])
         ELSE 10 * PyInt(SubSeq(s, 1, Len(s) - 1)) + DigitVal(s[Len(s)])

\* hour, minute = map(int, s.split(':')) followed by dt_time(hour, minute):
\* ok is FALSE where the code raises ValueError
ParseTime(s) ==
    LET parts == Split(s)
        h == IF Len(parts) = 2 THEN PyInt(parts[1]) ELSE -1
        m == IF Len(parts) = 2 THEN PyInt(parts[2]) ELSE -1
    IN  [ok |-> Len(parts) = 2 /\ h \in 0..23 /\ m \in 0..59, h |-> h, m |-> m]

\* datetime.time ordering: lexicographic on (hour, minute)
TimeLT(a, b) == a.h < b.h \/ (a.h = b.h /\ a.m < b.m)

TimeLE(a, b) == TimeLT(a, b) \/ (a.h = b.h /\ a.m = b.m)

\* datetime.now().weekday() and the day_map of both evaluators
day_map == <<"mon", "tue", "wed", "thu", "fri", "sat", "sun">>

weekday(t) == t.date % 7

today_abbr(t) == day_map[weekday(t) + 1]

InList(x, l) == \E i \in 1..Len(l) : l[i] = x

-----------------------------------------------------------------------------
(* Schedules as the evaluators receive them *)

None == [present |-> FALSE, start_time |-> <<>>, end_time |-> <<>>,
         days |-> <<>>, enabled |-> FALSE]

\* ScheduleDaemon.is_today_scheduled
is_today_scheduled(days, t) ==
    IF Len(days) = 0 THEN TRUE ELSE InList(today_abbr(t), days)

should_light_be_on_StrictWindow(schedule, tDay, tTime) ==
    IF ~schedule.present \/ ~schedule.enabled THEN FALSE
    ELSE IF ~is_today_scheduled(schedule.days, tDay) THEN FALSE
    ELSE IF Len(schedule.start_time) = 0 \/ Len(schedule.end_time) = 0 THEN FALSE
    ELSE LET st == ParseTime(schedule.start_time)
             en == ParseTime(schedule.end_time)
         IN  IF ~st.ok \/ ~en.ok THEN FALSE
             ELSE IF TimeLE(st, en)
                  THEN TimeLE(st, tTime) /\ TimeLE(tTime, en)
                  ELSE TimeLE(st, tTime) \/ TimeLT(tTime, en)

\* ScheduleDaemon.should_light_be_on; tDay and tTime are the two
\* datetime.now() readings (weekday, then time of day)
should_light_be_on(schedule, tDay, tTime) ==
    IF ~schedule.present \/ ~schedule.enabled THEN FALSE
    ELSE IF ~is_today_scheduled(schedule.days, tDay) THEN FALSE
    ELSE IF Len(schedule.start_time) = 0 \/ Len(schedule.end_time) = 0 THEN FALSE
    ELSE LET st == ParseTime(schedule.start_time)
             en == ParseTime(schedule.end_time)
         IN  IF ~st.ok \/ ~en.ok THEN FALSE
             ELSE IF TimeLE(st, en)
                  THEN TimeLE(st, tTime) /\ TimeLT(tTime, en)
                  ELSE TimeLE(st, tTime) \/ TimeLT(tTime, en)

check_desired_EmptyNever(schedule, tDay, tTime) ==
    IF ~schedule.present THEN "no_schedule"
    ELSE IF ~schedule.enabled THEN "disabled"
    ELSE IF ~InList(today_abbr(tDay), schedule.days) THEN "not_scheduled"
    ELSE IF Len(schedule.start_time) = 0 \/ Len(schedule.end_time) = 0
         THEN "invalid_times"
    ELSE LET st == ParseTime(schedule.start_time)
             en == ParseTime(schedule.end_time)
         IN  IF ~st.ok \/ ~en.ok THEN "error"
             ELSE IF TimeLT(st, en)
                  THEN IF TimeLE(st, tTime) /\ TimeLT(tTime, en)
                       THEN "on" ELSE "off"
                  ELSE IF TimeLE(st, tTime) \/ TimeLT(tTime, en)
                       THEN "on" ELSE "off"

check_desired_NoWrap(schedule, tDay, tTime) ==
    IF ~schedule.present THEN "no_schedule"
    ELSE IF ~schedule.enabled THEN "disabled"
    ELSE IF Len(schedule.days) # 0 /\ ~InList(today_abbr(tDay), schedule.days)
         THEN "not_scheduled"
    ELSE IF Len(schedule.start_time) = 0 \/ Len(schedule.end_time) = 0
         THEN "invalid_times"
    ELSE LET st == ParseTime(schedule.start_time)
             en == ParseTime(schedule.end_time)
         IN  IF ~st.ok \/ ~en.ok THEN "error"
             ELSE IF TimeLE(st, tTime) /\ TimeLT(tTime, en) THEN "on" ELSE "off"

\* RevPiController.check_schedule up to the computation of should_be_on:
\* the early answer it returns, or "on"/"off" for should_be_on
check_desired(schedule, tDay, tTime) ==
    IF ~schedule.present THEN "no_schedule"
    ELSE IF ~schedule.enabled THEN "disabled"
    ELSE IF Len(schedule.days) # 0 /\ ~InList(today_abbr(tDay), schedule.days)
         THEN "not_scheduled"
    ELSE IF Len(schedule.start_time) = 0 \/ Len(schedule.end_time) = 0
         THEN "invalid_times"
    ELSE LET st == ParseTime(schedule.start_time)
             en == ParseTime(schedule.end_time)
         IN  IF ~st.ok \/ ~en.ok THEN "error"
             ELSE IF TimeLT(st, en)
                  THEN IF TimeLE(st, tTime) /\ TimeLT(tTime, en)
                       THEN "on" ELSE "off"
                  ELSE IF TimeLE(st, tTime) \/ TimeLT(tTime, en)
                       THEN "on" ELSE "off"

-----------------------------------------------------------------------------
(* Input domains *)

Fmt2(n) == <<Digits[(n \div 10) + 1], Digits[(n % 10) + 1]>>

\* "HH:MM" as the schedule form and the validator produce and accept it
FmtTime(h, m) == Fmt2(h) \o <<":">> \o Fmt2(m)

TimeStrings == {FmtTime(h, m) : h \in 0..MaxHour, m \in 0..MaxMinute}

\* an empty and a non-numeric time, as a foreign writer of the daemon's
\* table may leave them
BadTimeStrings == {<<>>, <<"x">>}

RECURSIVE ListOf(_)
ListOf(S) ==
    IF S = {} THEN <<>>
    ELSE LET i == CHOOSE i \in S : \A j \in S : i <= j
         IN  <<day_map[i]>> \o ListOf(S \ {i})

\* the day lists: every subset of the first NumDays weekdays, in week order
DayLists == {ListOf(S) : S \in SUBSET (1..NumDays)}

Instants == [date : 0..MaxDate, h : 0..MaxHour, m : 0..MaxMinute]

IsLastOfDay(t) == t.h = MaxHour /\ t.m = MaxMinute

\* the clock one minute later
Succ(t) ==
    IF t.m < MaxMinute THEN [t EXCEPT !.m = t.m + 1]
    ELSE IF t.h < MaxHour THEN [t EXCEPT !.h = t.h + 1, !.m = 0]
    ELSE [date |-> t.date + 1, h |-> 0, m |-> 0]


-----------------------------------------------------------------------------
(* The Schedule store: tables device_schedules and schedule_days *)

MaxId == 1          \* AUTOINCREMENT ids handed out: 1..MaxId

Devices == {"RelayLight"}

RowsOf(device_id) == {r \in device_schedules : r.device_id = device_id}

\* cursor.fetchone() of SELECT ... WHERE device_id = ?: the first row
FirstRow(device_id) ==
    CHOOSE r \in RowsOf(device_id) : \A q \in RowsOf(device_id) : r.id <= q.id

\* SELECT day_of_week FROM schedule_days WHERE schedule_id = ?, in row order
RECURSIVE DaysOf(_, _)
DaysOf(rows, id) ==
    IF Len(rows) = 0 THEN <<>>
    ELSE (IF Head(rows).schedule_id = id THEN <<Head(rows).day_of_week>> ELSE <<>>)
         \o DaysOf(Tail(rows), id)

\* DELETE FROM schedule_days WHERE schedule_id = ?
RECURSIVE WithoutDays(_, _)
WithoutDays(rows, id) ==
    IF Len(rows) = 0 THEN <<>>
    ELSE (IF Head(rows).schedule_id = id THEN <<>> ELSE <<Head(rows)>>)
         \o WithoutDays(Tail(rows), id)

DayRows(id, days) == [i \in 1..Len(days) |-> [schedule_id |-> id, day_of_week |-> days[i]]]

\* Schedule.get_schedule: the row with its day list, None when there is none
get_schedule(device_id) ==
    IF RowsOf(device_id) = {} THEN None
    ELSE LET r == FirstRow(device_id)
         IN  [present |-> TRUE, start_time |-> r.start_time, end_time |-> r.end_time,
              days |-> DaysOf(schedule_days, r.id), enabled |-> r.enabled]

\* ServiceFactory.get_schedule_service(): every schedule handler of the
\* controller calls it and the factory does not define it; it is taken to
\* hand out the ScheduleService over the Schedule store, whose get_schedule
\* passes on what the store returns
get_schedule_service ==
    [get_schedule |-> [device_id \in Devices |-> get_schedule(device_id)]]

\* str comparison of two time strings (start_time >= end_time in the service):
\* lexicographic on the characters; the characters used here order as
\* their code points do, digits before ":" before letters
CharRank(c) == IF IsDigit(c) THEN DigitVal(c) ELSE IF c = ":" THEN 10 ELSE 11

RECURSIVE StrLT(_, _)
StrLT(a, b) ==
    IF Len(b) = 0 THEN FALSE
    ELSE IF Len(a) = 0 THEN TRUE
    ELSE IF CharRank(Head(a)) # CharRank(Head(b))
         THEN CharRank(Head(a)) < CharRank(Head(b))
         ELSE StrLT(Tail(a), Tail(b))

\* validate_time_format: TRUE when the string is accepted
validate_time_format(s) ==
    LET parts == Split(s)
    IN  /\ Len(s) # 0
        /\ Len(parts) = 2
        /\ PyInt(parts[1]) \in 0..23
        /\ PyInt(parts[2]) \in 0..59

valid_days == {day_map[i] : i \in 1..7}

\* ScheduleService.save_schedule up to the call of the model: the error code
\* it answers with, or "ok" when the request reaches the store
validate_save(device_id, start_time, end_time, days) ==
    IF Len(device_id) = 0 \/ Len(start_time) = 0 \/ Len(end_time) = 0 \/ Len(days) = 0
    THEN "MISSING_PARAMETER"
    ELSE IF ~validate_time_format(start_time) \/ ~validate_time_format(end_time)
    THEN "INVALID_TIME_FORMAT"
    ELSE IF ~StrLT(start_time, end_time) THEN "INVALID_DATE_RANGE"
    ELSE IF \E i \in 1..Len(days) : days[i] \notin valid_days THEN "VALIDATION_ERROR"
    ELSE "ok"

-----------------------------------------------------------------------------
(* The daemon's own table: schedules(device_id, start_time, end_time, days,  *)
(* enabled), days a comma-separated string.  No code of the repository      *)
(* creates or writes it.                                                     *)

\* [d.strip() for d in days.split(',')] over a column kept as a sequence of
\* day names and "," separators; an empty (or NULL) column gives []
RECURSIVE SplitDays(_)
SplitDays(col) ==
    IF Len(col) = 0 THEN <<>>
    ELSE IF Head(col) = "," THEN SplitDays(Tail(col))
    ELSE <<Head(col)>> \o SplitDays(Tail(col))

\* ScheduleDaemon.get_schedule: the row of RelayLight with days parsed,
\* None when there is no row (or the query fails)
daemon_get_schedule ==
    IF ~schedules.present THEN None
    ELSE [present |-> TRUE, start_time |-> schedules.start_time,
          end_time |-> schedules.end_time, days |-> SplitDays(schedules.days),
          enabled |-> schedules.enabled]


-----------------------------------------------------------------------------
(* Login sessions, the device driver and the toggle endpoint *)

\* what requests.post(url, json=data) sends: no session cookie
NoSession == [keys |-> FALSE, expired |-> FALSE]

\* the session of a logged-in browser, and the same past SESSION_TIMEOUT
ValidSession == [keys |-> TRUE, expired |-> FALSE]

ExpiredSession == [keys |-> TRUE, expired |-> TRUE]

Sessions == {NoSession, ValidSession, ExpiredSession}

\* AuthManager.is_authenticated: user_id, username and session_token are in
\* the session and its timestamp is not older than SESSION_TIMEOUT
is_authenticated(s) == s.keys /\ ~s.expired

\* outcomes of a status read: "sim0"/"sim1" piTest missing and
\* random.choice gave 0/1; the others with piTest present
ReadInputs == {"sim0", "sim1", "value", "unparsable", "noindex",
               "fb_value", "fb_unparsable", "fb_noline", "fb_exception"}

\* outcomes of a write: "sim" piTest missing; the others with piTest present
WriteInputs == {"sim", "ok", "nonzero", "timeout", "exception"}

\* polarity of the hardware: value 0 is ON, 1 is OFF
PiValue(rel) == IF rel = "ON" THEN 0 ELSE 1

StatusOfValue(v) == IF v = 0 THEN "ON" ELSE "OFF"

\* RevPiService.get_device_status (with _get_status_with_process_control)
get_device_status(rd, rel) ==
    CASE rd = "sim0" -> [status |-> StatusOfValue(0), simulated |-> TRUE, error |-> FALSE]
      [] rd = "sim1" -> [status |-> StatusOfValue(1), simulated |-> TRUE, error |-> FALSE]
      [] rd \in {"value", "fb_value"} ->
             [status |-> StatusOfValue(PiValue(rel)), simulated |-> FALSE, error |-> FALSE]
      [] rd \in {"unparsable", "fb_unparsable"} ->
             [status |-> "UNKNOWN", simulated |-> FALSE, error |-> FALSE]
      [] rd = "fb_noline" -> [status |-> "ERROR", simulated |-> FALSE, error |-> FALSE]
      [] OTHER -> [status |-> "ERROR", simulated |-> FALSE, error |-> TRUE]

toggle_device_NoSimulation(wr) ==
    CASE wr \in {"sim", "ok"} -> [success |-> TRUE, simulated |-> FALSE, written |-> TRUE]
      [] OTHER -> [success |-> FALSE, simulated |-> FALSE, written |-> FALSE]

\* RevPiService.toggle_device: written is TRUE when piTest -w ran and
\* returned 0
toggle_device(wr) ==
    CASE wr = "sim" -> [success |-> TRUE, simulated |-> TRUE, written |-> FALSE]
      [] wr = "ok" -> [success |-> TRUE, simulated |-> FALSE, written |-> TRUE]
      [] OTHER -> [success |-> FALSE, simulated |-> FALSE, written |-> FALSE]

RelayAfter(written, action) ==
    IF written THEN (IF action = "on" THEN "ON" ELSE "OFF") ELSE relay

revpi_toggle_NoLogin(sess, action_str, wr) ==
    IF action_str \notin {"on", "off"}
    THEN [json |-> TRUE, success |-> FALSE, written |-> FALSE, code |-> 400]
    ELSE LET r == toggle_device(wr)
         IN  [json |-> TRUE, success |-> r.success, written |-> r.written,
              code |-> IF r.success THEN 200 ELSE 500]

\* RevPiController.revpi_toggle behind login_required, for device RelayLight:
\* the response (a redirect to the login page when not authenticated)
revpi_toggle(sess, action_str, wr) ==
    IF ~is_authenticated(sess)
    THEN [json |-> FALSE, success |-> FALSE, written |-> FALSE, code |-> 302]
    ELSE IF action_str \notin {"on", "off"}
    THEN [json |-> TRUE, success |-> FALSE, written |-> FALSE, code |-> 400]
    ELSE LET r == toggle_device(wr)
         IN  [json |-> TRUE, success |-> r.success, written |-> r.written,
              code |-> IF r.success THEN 200 ELSE 500]

\* outcomes of an INSERT into relay_activations: done, an sqlite error, any
\* other exception
LogInputs == {"ok", "dberror", "exception"}

\* revpi_toggle, lines 83-96: the row the endpoint appends to the activation
\* log after the driver call (none when the request never reaches it, or
\* when the insert fails)
endpoint_log(sess, action_str, result, lg) ==
    IF is_authenticated(sess) /\ action_str \in {"on", "off"} /\ lg = "ok"
    THEN <<[device_id |-> "RelayLight", action |-> action_str,
            username |-> "user", is_automatic |-> FALSE,
            success |-> result.success]>>
    ELSE <<>>

\* ScheduleDaemon.log_activation: the row the daemon appends after a toggle
\* that toggle_relay reported successful
daemon_log(action, lg) ==
    IF lg = "ok"
    THEN <<[device_id |-> "RelayLight", action |-> action,
            username |-> "schedule-daemon", is_automatic |-> TRUE,
            success |-> TRUE]>>
    ELSE <<>>

toggle_response_LogFatal(result, lg) ==
    IF lg = "ok" THEN result
    ELSE [result EXCEPT !.success = FALSE, !.code = 500]

\* revpi_toggle, lines 97-100: the response after the logging attempt
toggle_response(result, lg) == result

\* ScheduleDaemon.toggle_relay on the response of POST /revpi-toggle:
\* raise_for_status() passes below 400, json() raises on the login page
toggle_relay(resp) == resp.code < 400 /\ resp.json /\ resp.success

-----------------------------------------------------------------------------
(* History of the last handler run *)

NoDate == -1

Idle == [op |-> "none", fetched |-> None, desired |-> "na", status |-> "unread",
         cmd |-> "none", ok |-> FALSE, written |-> FALSE, drv |-> "ok",
         pre_state |-> "None", new_date |-> FALSE, rollover |-> FALSE,
         after_manual |-> FALSE, result |-> "none",
         code |-> 0, logged |-> <<>>, authed |-> FALSE]


-----------------------------------------------------------------------------
(* Inputs of the handlers.  The requests of the system carry times on the   *)
(* hour and the system clock is read on the hour: with such schedules the   *)
(* desired state is the same at every instant of one hour.                  *)

ReqTimes == {FmtTime(0, 0), FmtTime(MaxHour, 0)}

SaveDayLists == {<<>>, <<"mon">>}

\* the driver outcomes the handlers of the system meet
SysReads == {"sim0", "sim1", "value", "unparsable", "fb_noline"}

SysWrites == {"sim", "ok", "nonzero"}

\* the outcomes of the activation-log inserts made in the course of a daemon
\* tick: a failed insert is only reported (schedule_daemon.py:246-247,
\* revpi_controller.py:95-96) and changes nothing the daemon keeps
TickLogs == {"ok"}

\* rows a foreign writer leaves in the daemon's table
LegacyRows == [present : {TRUE}, start_time : {FmtTime(0, 0)},
               end_time : {FmtTime(MaxHour, 0)}, days : {<<"mon">>},
               enabled : BOOLEAN]

\* the clock one hour later
NextHour(t) ==
    IF t.h < MaxHour THEN [t EXCEPT !.h = t.h + 1]
    ELSE [date |-> t.date + 1, h |-> 0, m |-> t.m]

\* readings of datetime.now() later in the same handler run
Later(t) == {t} \cup (IF NextHour(t).date <= MaxDate THEN {NextHour(t)} ELSE {})

-----------------------------------------------------------------------------
(* Handlers *)

\* time passes (between requests, and in the daemon's sleep)
ClockAdvance ==
    /\ NextHour(clock).date <= MaxDate
    /\ clock' = NextHour(clock)
    /\ last' = Idle
    /\ UNCHANGED <<device_schedules, schedule_days, next_id, schedules, relay,
                   last_state, last_check_date, evars, stvars, lvars, rvars>>

\* Schedule.save_schedule: one transaction; dbok FALSE is an sqlite error,
\* rolled back
save_schedule(device_id, start_time, end_time, days, enabled, dbok) ==
    IF ~dbok
    THEN UNCHANGED <<device_schedules, schedule_days, next_id>>
    ELSE IF RowsOf(device_id) # {}
    THEN LET old == FirstRow(device_id)
             new == [old EXCEPT !.start_time = start_time, !.end_time = end_time,
                                !.enabled = enabled]
         IN  /\ device_schedules' = (device_schedules \ {old}) \cup {new}
             /\ schedule_days' = WithoutDays(schedule_days, old.id) \o DayRows(old.id, days)
             /\ next_id' = next_id
    ELSE /\ device_schedules' = device_schedules \cup
                {[id |-> next_id, device_id |-> device_id, start_time |-> start_time,
                  end_time |-> end_time, enabled |-> enabled]}
         /\ schedule_days' = schedule_days \o DayRows(next_id, days)
         /\ next_id' = next_id + 1

\* POST /revpi-schedule/save: ScheduleService.save_schedule
SaveSchedule ==
    /\ \E device_id \in Devices, start_time \in ReqTimes, end_time \in ReqTimes,
          days \in SaveDayLists :
           IF validate_save(device_id, start_time, end_time, days) = "ok"
           THEN \E enabled \in BOOLEAN, dbok \in BOOLEAN :
                  /\ (dbok /\ RowsOf(device_id) = {}) => next_id <= MaxId
                  /\ save_schedule(device_id, start_time, end_time, days, enabled, dbok)
           ELSE UNCHANGED <<device_schedules, schedule_days, next_id>>
    /\ last' = Idle
    /\ UNCHANGED <<clock, schedules, relay, last_state, last_check_date, evars, stvars, lvars, rvars>>

\* Schedule.enable_schedule: UPDATE ... WHERE device_id = ?
enable_schedule(device_id, enabled) ==
    {IF r.device_id = device_id THEN [r EXCEPT !.enabled = enabled] ELSE r :
        r \in device_schedules}

\* POST /revpi-schedule/enable
EnableSchedule ==
    /\ \E device_id \in Devices, enabled \in BOOLEAN :
           device_schedules' = enable_schedule(device_id, enabled)
    /\ last' = Idle
    /\ UNCHANGED <<clock, schedule_days, next_id, schedules, relay,
                   last_state, last_check_date, evars, stvars, lvars, rvars>>

\* DELETE /revpi-schedule/delete: Schedule.delete_schedule (the day rows stay:
\* the connection never turns foreign keys on)
DeleteSchedule ==
    /\ \E device_id \in Devices :
           device_schedules' = device_schedules \ RowsOf(device_id)
    /\ last' = Idle
    /\ UNCHANGED <<clock, schedule_days, next_id, schedules, relay,
                   last_state, last_check_date, evars, stvars, lvars, rvars>>

\* a writer outside the repository changes the row of the daemon's table
LegacyWrite ==
    /\ \E row \in LegacyRows \cup {None} : schedules' = row
    /\ schedules' # schedules
    /\ last' = Idle
    /\ UNCHANGED <<clock, device_schedules, schedule_days, next_id, relay,
                   last_state, last_check_date, evars, stvars, lvars, rvars>>

\* POST /revpi-toggle by a browser, the activation-log insert ending in one
\* of Logs
RevpiToggleWith(Logs) ==
    /\ \E sess \in Sessions, action_str \in {"on", "off"} :
         \E wr \in (IF is_authenticated(sess) THEN SysWrites ELSE {"ok"}) :
         \E lg \in (IF is_authenticated(sess) THEN Logs ELSE {"ok"}) :
           LET result == revpi_toggle(sess, action_str, wr)
               resp == toggle_response(result, lg)
           IN  /\ relay' = RelayAfter(result.written, action_str)
               /\ last' = [Idle EXCEPT !.op = "toggle", !.cmd = action_str,
                              !.ok = resp.success, !.written = result.written,
                              !.drv = wr, !.code = resp.code,
                              !.authed = is_authenticated(sess),
                              !.logged = endpoint_log(sess, action_str, result, lg)]
    /\ UNCHANGED <<clock, device_schedules, schedule_days, next_id, schedules,
                   last_state, last_check_date, evars, stvars, lvars, rvars>>

RevpiToggle == RevpiToggleWith(LogInputs)

\* the same request against the API server of SpecApi, whose log inserts
\* succeed
RevpiToggleApi == RevpiToggleWith(TickLogs)

\* the answer of check_schedule
CheckResult(tag, cmd, success) ==
    IF tag = "error" THEN "error"
    ELSE IF tag = "invalid_times" THEN "invalid"
    ELSE IF cmd = "none" THEN "none"
    ELSE IF ~success THEN "failed"
    ELSE IF cmd = "on" THEN "turned_on" ELSE "turned_off"

\* check_schedule, lines 370-397: the toggle it decides on
check_command(tag, status) ==
    IF tag = "on" /\ ~(status = "ON") THEN "on"
    ELSE IF tag = "off" /\ status = "ON" THEN "off"
    ELSE "none"

\* check_schedule as a whole: the toggle one pass issues for a schedule,
\* the two clock readings and the status it reads ("none" on every early
\* return, where the status is not read)
check_pass_command(schedule, tDay, tTime, status) ==
    LET tag == check_desired(schedule, tDay, tTime)
    IN  IF tag \notin {"on", "off"} THEN "none" ELSE check_command(tag, status)

\* the sessions of the requests to POST /revpi-schedule/check: the endpoint
\* never looks at the session, so one stands for all, and it is that of a
\* client that has not logged in
CheckSessions == {NoSession}

\* POST /revpi-schedule/check: RevPiController.check_schedule, which is
\* registered without login_required
CheckSchedule ==
    /\ \E sess \in CheckSessions : \E t2 \in Later(clock) :
         LET schedule == get_schedule_service.get_schedule["RelayLight"]
             tag == check_desired(schedule, clock, t2)
         IN  IF tag \notin {"on", "off"}
             THEN /\ t2 = clock
                  /\ UNCHANGED <<relay, clock>>
                  /\ last' = [Idle EXCEPT !.op = "check", !.fetched = schedule,
                                 !.desired = tag,
                                 !.authed = is_authenticated(sess),
                                 !.result = CheckResult(tag, "none", FALSE)]
             ELSE \E rd \in SysReads :
                    LET st == get_device_status(rd, relay)
                        cmd == check_pass_command(schedule, clock, t2, st.status)
                    IN  \E wr \in (IF cmd = "none" THEN {"ok"} ELSE SysWrites) :
                          LET r == toggle_device(wr)
                          IN  /\ relay' = IF cmd = "none" THEN relay
                                          ELSE RelayAfter(r.written, cmd)
                              /\ clock' = t2
                              /\ last' = [Idle EXCEPT !.op = "check",
                                             !.fetched = schedule,
                                             !.desired = tag,
                                             !.authed = is_authenticated(sess),
                                             !.status = st.status,
                                             !.cmd = cmd,
                                             !.ok = cmd # "none" /\ r.success,
                                             !.written = cmd # "none" /\ r.written,
                                             !.result = CheckResult(tag, cmd, r.success)]
    /\ UNCHANGED <<device_schedules, schedule_days, next_id, schedules,
                   last_state, last_check_date, evars, stvars, lvars, rvars>>

inert_command_UnlessOff(state) == IF state # "off" THEN "off" ELSE "none"

\* lines 177 and 187: what the daemon sends when no enabled schedule is fetched
inert_command(state) == IF state = "on" THEN "off" ELSE "none"

rollover_reset_Keep(state, rollover) == state

\* lines 199-203: a new date clears the remembered state
rollover_reset(state, rollover) == IF rollover THEN "None" ELSE state

needs_toggle_Always(state, desired_state) == TRUE

\* line 206: the comparison that decides on a toggle
needs_toggle(state, desired_state) == state # desired_state

\* check_and_update_relay as a whole: the toggle one tick issues for a
\* schedule, the two clock readings, the remembered state and the outcome of
\* the date comparison
tick_command(schedule, tDay, tTime, state, rollover) ==
    IF ~schedule.present \/ ~schedule.enabled THEN inert_command(state)
    ELSE LET desired_state == IF should_light_be_on(schedule, tDay, tTime)
                              THEN "on" ELSE "off"
         IN  IF needs_toggle(rollover_reset(state, rollover), desired_state)
             THEN desired_state ELSE "none"

\* the history a tick leaves
TickRecord(schedule, desired, cmd, resp, wr, rollover, new_date, logged) ==
    [Idle EXCEPT !.op = "tick", !.fetched = schedule, !.desired = desired,
                 !.cmd = cmd,
                 !.ok = cmd # "none" /\ toggle_relay(resp),
                 !.written = cmd # "none" /\ resp.written,
                 !.drv = IF cmd = "none" THEN "ok" ELSE wr,
                 !.pre_state = last_state,
                 !.new_date = new_date,
                 !.rollover = rollover,
                 !.after_manual = (last.op = "toggle" /\ last.written),
                 !.logged = IF cmd = "none" THEN <<>> ELSE logged]

\* check_and_update_relay, lines 174-191: no schedule, or a disabled one
TickInert(sess, schedule) ==
    LET cmd == tick_command(schedule, clock, clock, last_state, FALSE)
    IN  \E wr \in (IF cmd = "none" THEN {"ok"} ELSE SysWrites) :
        \E lg \in TickLogs :
          LET resp == toggle_response(revpi_toggle(sess, "off", wr), lg)
          IN  /\ relay' = IF cmd = "none" THEN relay
                          ELSE RelayAfter(resp.written, "off")
              /\ last_state' = IF cmd = "none" THEN last_state ELSE "off"
              /\ last' = TickRecord(schedule, "na", cmd, resp, wr, FALSE,
                                    last_check_date # clock.date,
                                    endpoint_log(sess, "off", resp, lg))
              /\ UNCHANGED <<clock, last_check_date>>

\* check_and_update_relay, lines 193-217: an enabled schedule
TickEnabled(sess, schedule) ==
    \E t2 \in Later(clock) : \E t3 \in Later(t2) :
      LET desired_state == IF should_light_be_on(schedule, clock, t2)
                           THEN "on" ELSE "off"
          rollover == last_check_date # t3.date
          forced == rollover_reset(last_state, rollover)
          cmd == tick_command(schedule, clock, t2, last_state, rollover)
      IN  \E wr \in (IF cmd = "none" THEN {"ok"} ELSE SysWrites) :
          \E lg \in TickLogs : \E dlg \in TickLogs :
            LET resp == toggle_response(revpi_toggle(sess, desired_state, wr), lg)
                logged == endpoint_log(sess, desired_state, resp, lg) \o
                          (IF toggle_relay(resp) THEN daemon_log(desired_state, dlg)
                           ELSE <<>>)
            IN  /\ relay' = IF cmd = "none" THEN relay
                            ELSE RelayAfter(resp.written, desired_state)
                /\ last_state' = IF cmd # "none" /\ toggle_relay(resp)
                                 THEN desired_state ELSE forced
                /\ last_check_date' = t3.date
                /\ clock' = t3
                /\ last' = TickRecord(schedule, desired_state, cmd, resp, wr,
                                      rollover, rollover, logged)

\* ScheduleDaemon.check_and_update_relay, its toggle requests carrying sess
Tick(sess) ==
    /\ LET schedule == daemon_get_schedule
       IN  IF ~schedule.present \/ ~schedule.enabled
           THEN TickInert(sess, schedule)
           ELSE TickEnabled(sess, schedule)
    /\ UNCHANGED <<device_schedules, schedule_days, next_id, schedules, evars, stvars, lvars, rvars>>

\* the daemon as it runs: requests.post sends no session
DaemonTick == Tick(NoSession)

\* the daemon against an API server that takes its requests as authenticated
DaemonTickApi == Tick(ValidSession)

-----------------------------------------------------------------------------
(* The evaluator harness: both evaluators applied to one schedule at one    *)
(* instant, then at the next                                                 *)

EvalSchedules ==
    {None} \cup [present : {TRUE},
                 start_time : TimeStrings \cup BadTimeStrings,
                 end_time : TimeStrings \cup BadTimeStrings,
                 days : DayLists, enabled : BOOLEAN]

\* the remembered state that stands for a relay state
StateOf(rel) == IF rel = "ON" THEN "on" ELSE "off"

Relays == {"ON", "OFF"}

NoEval == [done |-> FALSE, wd |-> "", h |-> 0, m |-> 0, d |-> "off", c |-> "none",
           cc |-> [rel \in Relays |-> "none"], tc |-> [rel \in Relays |-> "none"]]

Evaluate ==
    /\ ~ecur.done
    /\ ecur' = [done |-> TRUE, wd |-> today_abbr(enow), h |-> enow.h, m |-> enow.m,
                d |-> IF should_light_be_on(esched, enow, enow) THEN "on" ELSE "off",
                c |-> check_desired(esched, enow, enow),
                cc |-> [rel \in Relays |->
                          check_pass_command(esched, enow, enow,
                              get_device_status("value", rel).status)],
                tc |-> [rel \in Relays |->
                          tick_command(esched, enow, enow, StateOf(rel), FALSE)]]
    /\ UNCHANGED <<esched, enow, eprev, sysvars, stvars, lvars, rvars>>

EvalAdvance ==
    /\ ecur.done
    /\ Succ(enow).date <= MaxDate
    /\ enow' = Succ(enow)
    /\ eprev' = ecur
    /\ ecur' = NoEval
    /\ UNCHANGED <<esched, sysvars, stvars, lvars, rvars>>

-----------------------------------------------------------------------------
(* The store harness: the Schedule model statement by statement.  Every     *)
(* request opens its own connection (Database.get_connection) and gunicorn  *)
(* runs NumConns worker processes, so NumConns requests are served at once. *)
(* sqlite3 opens the write transaction at the first INSERT, UPDATE or       *)
(* DELETE of a connection, not at a SELECT; one connection writes at a      *)
(* time, and the others read the committed tables (device_schedules,        *)
(* schedule_days, next_id) until it commits.                                 *)

NumConns == 2

Conns == 1..NumConns

\* what no action of the store harness touches
storeframe == <<clock, schedules, relay, last_state, last_check_date, evars, lvars, rvars>>

\* ids the store harness hands out: one more than MaxId, so that two
\* connections can both insert
MaxRows == MaxId + 1

\* "H:MM", an hour written without its leading zero
ShortTime(h, m) == <<Digits[h + 1]>> \o <<":">> \o Fmt2(m)

\* the bodies of POST /revpi-schedule/save the connections of the store
\* harness serve: two that pass validation and differ in every field but the
\* start time, and one that does not pass
StoreRequests ==
    {[device_id |-> "RelayLight", start_time |-> FmtTime(0, 0),
      end_time |-> FmtTime(1, 0), days |-> <<"mon", "tue">>, enabled |-> TRUE],
     [device_id |-> "RelayLight", start_time |-> FmtTime(0, 0),
      end_time |-> FmtTime(1, 1), days |-> <<"tue">>, enabled |-> FALSE],
     [device_id |-> "RelayLight", start_time |-> FmtTime(1, 0),
      end_time |-> FmtTime(0, 0), days |-> <<"mon">>, enabled |-> TRUE]}

NoRequest == [device_id |-> "", start_time |-> <<>>, end_time |-> <<>>,
              days |-> <<>>, enabled |-> FALSE]

\* a connection between requests
IdleConn == [pc |-> "idle", req |-> NoRequest, id |-> 0, k |-> 0,
             old_days |-> <<>>, follows |-> FALSE]

\* the history while a request is being served
StoreIdle == [op |-> "none"]

\* conns after connection c has changed the committed tables and gone idle:
\* the saves still being served no longer follow a save directly
AfterChange(c) ==
    [o \in Conns |-> IF o = c THEN IdleConn ELSE [conns[o] EXCEPT !.follows = FALSE]]

\* no write transaction is open
NoTx == [owner |-> 0, device_schedules |-> {}, schedule_days |-> <<>>, next_id |-> 0]

\* the tables as the connection that writes sees them
Working == [device_schedules |-> wtx.device_schedules,
            schedule_days |-> wtx.schedule_days, next_id |-> wtx.next_id]

Committed == [device_schedules |-> device_schedules,
              schedule_days |-> schedule_days, next_id |-> next_id]

after_rollback_Partial(committed, working) == working

\* get_connection, lines 35-43: conn.rollback() on sqlite3.Error, and
\* conn.close() with the transaction open on any other exception
after_rollback(committed, working) == committed

\* SELECT id FROM device_schedules WHERE device_id = ? and fetchone():
\* the id found, 0 for no row
select_id(device_id) ==
    IF RowsOf(device_id) = {} THEN 0 ELSE FirstRow(device_id).id

\* ScheduleService.save_schedule on the model's answer (lines 113-139)
save_result(success) == IF success THEN "ok" ELSE "DATABASE_ERROR"

\* save_schedule, service and model up to the SELECT: a rejected request is
\* answered at once, an accepted one has run the SELECT.  A request taken up
\* while no other is being served and right after a successful save follows
\* that save, for as long as no other connection changes the tables.
StoreSaveRequest(c) ==
    /\ conns[c].pc = "idle"
    /\ \E req \in StoreRequests :
         LET code == validate_save(req.device_id, req.start_time, req.end_time, req.days)
         IN  IF code # "ok"
             THEN /\ last' = [op |-> "save", req |-> NoRequest, result |-> code,
                              second |-> FALSE]
                  /\ UNCHANGED conns
             ELSE /\ conns' = [conns EXCEPT ![c] =
                                 [IdleConn EXCEPT !.pc = "selected", !.req = req,
                                     !.id = select_id(req.device_id),
                                     !.follows = /\ last.op = "save" /\ last.result = "ok"
                                                 /\ \A o \in Conns : conns[o].pc = "idle"]]
                  /\ last' = StoreIdle
    /\ UNCHANGED <<device_schedules, schedule_days, next_id, wtx, saved>>
    /\ UNCHANGED storeframe

\* the UPDATE of the row found, or the INSERT of a new row: the statement
\* that opens the write transaction
SaveWriteRow(c) ==
    /\ conns[c].pc = "selected"
    /\ wtx.owner = 0
    /\ LET req == conns[c].req
           id == conns[c].id
       IN  IF id # 0
           THEN /\ wtx' = [owner |-> c,
                           device_schedules |->
                               {IF r.id = id
                                THEN [r EXCEPT !.start_time = req.start_time,
                                               !.end_time = req.end_time,
                                               !.enabled = req.enabled]
                                ELSE r : r \in device_schedules},
                           schedule_days |-> schedule_days,
                           next_id |-> next_id]
                /\ conns' = [conns EXCEPT ![c].pc = "row"]
           ELSE /\ next_id <= MaxRows
                /\ wtx' = [owner |-> c,
                           device_schedules |-> device_schedules \cup
                               {[id |-> next_id, device_id |-> req.device_id,
                                 start_time |-> req.start_time,
                                 end_time |-> req.end_time, enabled |-> req.enabled]},
                           schedule_days |-> schedule_days,
                           next_id |-> next_id + 1]
                /\ conns' = [conns EXCEPT ![c].pc = "days", ![c].id = next_id]
    /\ last' = StoreIdle
    /\ UNCHANGED <<device_schedules, schedule_days, next_id, saved>>
    /\ UNCHANGED storeframe

\* DELETE FROM schedule_days WHERE schedule_id = ?
SaveDeleteDays(c) ==
    /\ conns[c].pc = "row"
    /\ wtx.owner = c
    /\ wtx' = [wtx EXCEPT !.schedule_days = WithoutDays(wtx.schedule_days, conns[c].id)]
    /\ conns' = [conns EXCEPT ![c].pc = "days"]
    /\ last' = StoreIdle
    /\ UNCHANGED <<device_schedules, schedule_days, next_id, saved>>
    /\ UNCHANGED storeframe

\* one pass of `for day in days`: INSERT INTO schedule_days
SaveInsertDay(c) ==
    /\ conns[c].pc = "days"
    /\ wtx.owner = c
    /\ conns[c].k < Len(conns[c].req.days)
    /\ wtx' = [wtx EXCEPT !.schedule_days =
                   Append(wtx.schedule_days,
                          [schedule_id |-> conns[c].id,
                           day_of_week |-> conns[c].req.days[conns[c].k + 1]])]
    /\ conns' = [conns EXCEPT ![c].k = conns[c].k + 1]
    /\ last' = StoreIdle
    /\ UNCHANGED <<device_schedules, schedule_days, next_id, saved>>
    /\ UNCHANGED storeframe

\* conn.commit() and the answer of the service
SaveCommit(c) ==
    /\ conns[c].pc = "days"
    /\ wtx.owner = c
    /\ conns[c].k = Len(conns[c].req.days)
    /\ device_schedules' = wtx.device_schedules
    /\ schedule_days' = wtx.schedule_days
    /\ next_id' = wtx.next_id
    /\ wtx' = NoTx
    /\ saved' = [saved EXCEPT ![conns[c].id] = conns[c].req.days]
    /\ last' = [op |-> "save", req |-> conns[c].req,
                result |-> save_result(TRUE), second |-> conns[c].follows]
    /\ conns' = AfterChange(c)
    /\ UNCHANGED storeframe

\* a statement of the save, or its commit, raises (sqlite3.Error such as
\* "database is locked", or any other exception): the transaction is rolled
\* back and the service answers with a database error
SaveFail(c) ==
    /\ conns[c].pc \in {"selected", "row", "days"}
    /\ LET t == IF wtx.owner = c THEN after_rollback(Committed, Working) ELSE Committed
       IN  /\ device_schedules' = t.device_schedules
           /\ schedule_days' = t.schedule_days
           /\ next_id' = t.next_id
    /\ wtx' = IF wtx.owner = c THEN NoTx ELSE wtx
    /\ last' = [op |-> "save", req |-> conns[c].req,
                result |-> save_result(FALSE), second |-> FALSE,
                stage |-> conns[c].pc, k |-> conns[c].k]
    /\ conns' = AfterChange(c)
    /\ UNCHANGED saved
    /\ UNCHANGED storeframe

\* RevPiController.get_schedule answers jsonify(result) whatever the service
\* result is: the status is Flask's default
get_schedule_status(result) == 200

\* RevPiController.enable_schedule and delete_schedule: 404 for every service
\* result that is not a success
change_schedule_status(result) == IF result = "ok" THEN 200 ELSE 404

delete_result_AlwaysOk(rowcount) == "ok"

\* ScheduleService.delete_schedule on the model's answer (cursor.rowcount > 0)
delete_result(rowcount) == IF rowcount > 0 THEN "ok" ELSE "RECORD_NOT_FOUND"

\* DELETE /revpi-schedule/delete as one transaction: the DELETE and, when it
\* removed a row, the commit; dbok FALSE is an sqlite error, rolled back
StoreDelete(c) ==
    /\ conns[c].pc = "idle"
    /\ \E device_id \in Devices, dbok \in BOOLEAN :
         LET rows == IF dbok /\ wtx.owner = 0 THEN RowsOf(device_id) ELSE {}
         IN  /\ device_schedules' = device_schedules \ rows
             /\ last' = [op |-> "delete", device_id |-> device_id,
                         had_row |-> RowsOf(device_id) # {},
                         result |-> delete_result(Cardinality(rows)),
                         http |-> change_schedule_status(delete_result(Cardinality(rows)))]
             /\ conns' = IF rows = {} THEN conns ELSE AfterChange(c)
    /\ UNCHANGED <<schedule_days, next_id, wtx, saved>>
    /\ UNCHANGED storeframe

\* POST /revpi-schedule/enable as one transaction: the UPDATE and, when it
\* changed a row, the commit; the service answers on cursor.rowcount > 0 as
\* the delete does; dbok FALSE is an sqlite error
StoreEnable(c) ==
    /\ conns[c].pc = "idle"
    /\ \E device_id \in Devices, enabled \in BOOLEAN, dbok \in BOOLEAN :
         LET rows == IF dbok /\ wtx.owner = 0 THEN RowsOf(device_id) ELSE {}
         IN  /\ device_schedules' = IF rows = {} THEN device_schedules
                                    ELSE enable_schedule(device_id, enabled)
             /\ last' = [op |-> "enable", device_id |-> device_id,
                         had_row |-> RowsOf(device_id) # {},
                         result |-> delete_result(Cardinality(rows)),
                         http |-> change_schedule_status(delete_result(Cardinality(rows)))]
             /\ conns' = IF rows = {} THEN conns ELSE AfterChange(c)
    /\ UNCHANGED <<schedule_days, next_id, wtx, saved>>
    /\ UNCHANGED storeframe

\* Schedule.get_schedule, first SELECT: the schedule row
StoreGetRow(c) ==
    /\ conns[c].pc = "idle"
    /\ \E device_id \in Devices :
         IF RowsOf(device_id) = {}
         THEN /\ last' = [op |-> "get", found |-> FALSE,
                          http |-> get_schedule_status("RECORD_NOT_FOUND")]
              /\ UNCHANGED conns
         ELSE /\ conns' = [conns EXCEPT ![c] =
                             [IdleConn EXCEPT !.pc = "get_row",
                                              !.id = FirstRow(device_id).id,
                                              !.old_days = saved[FirstRow(device_id).id]]]
              /\ last' = StoreIdle
    /\ UNCHANGED <<device_schedules, schedule_days, next_id, wtx, saved>>
    /\ UNCHANGED storeframe

\* Schedule.get_schedule, second SELECT: the day rows of the schedule id
StoreGetDays(c) ==
    /\ conns[c].pc = "get_row"
    /\ last' = [op |-> "get", found |-> TRUE, http |-> get_schedule_status("ok"),
                days |-> DaysOf(schedule_days, conns[c].id),
                old_days |-> conns[c].old_days, new_days |-> saved[conns[c].id]]
    /\ conns' = [conns EXCEPT ![c] = IdleConn]
    /\ UNCHANGED <<device_schedules, schedule_days, next_id, wtx, saved>>
    /\ UNCHANGED storeframe

-----------------------------------------------------------------------------
(* The save service request by request: validation over a wider range of    *)
(* request bodies, the model's transaction as one step                      *)

ServiceTimes == {FmtTime(0, 0), FmtTime(1, 0), ShortTime(1, 0), <<"x">>}

ServiceDayLists == {<<>>, <<"mon">>, <<"mon", "funday">>}

ServiceRequests ==
    [device_id : Devices, start_time : ServiceTimes, end_time : ServiceTimes,
     days : ServiceDayLists, enabled : {TRUE}]

\* ScheduleService.save_schedule, from the request to its answer
ServiceSave ==
    /\ \E req \in ServiceRequests :
         LET code == validate_save(req.device_id, req.start_time, req.end_time, req.days)
         IN  IF code = "ok"
             THEN \E dbok \in BOOLEAN :
                    /\ (dbok /\ RowsOf(req.device_id) = {}) => next_id <= MaxId
                    /\ save_schedule(req.device_id, req.start_time, req.end_time,
                                     req.days, req.enabled, dbok)
                    /\ last' = [op |-> "save", req |-> req, result |-> save_result(dbok)]
             ELSE /\ UNCHANGED <<device_schedules, schedule_days, next_id>>
                  /\ last' = [op |-> "save", req |-> req, result |-> code]
    /\ UNCHANGED <<clock, schedules, relay, last_state, last_check_date,
                   evars, stvars, lvars, rvars>>

-----------------------------------------------------------------------------
(* The log harness: table relay_activations and the list query.  A          *)
(* timestamp is the rank of the stored text in the order sqlite compares    *)
(* it by; the endpoint stores CURRENT_TIMESTAMP (UTC, whole seconds) and    *)
(* the daemon datetime.now().isoformat(), so the rank of a new row is not   *)
(* tied to the ranks of the rows before it.                                  *)

MaxLog == 3         \* rows of the log: at most MaxLog
MaxStamp == 2       \* timestamps: 0..MaxStamp

\* the limit parameter of GET /api/relay-activations: request.args.get('limit',
\* 2000, type=int) passes every integer on
Limits == -1..(MaxLog + 1)

NoAnswer == [done |-> FALSE, limit |-> 0, rows |-> <<>>]

\* the orders ORDER BY timestamp DESC may give the rows in: every
\* arrangement with no row before one of a greater timestamp
OrderedByTimestampDesc(rows) ==
    {[i \in 1..Len(rows) |-> rows[p[i]]] :
        p \in {q \in [1..Len(rows) -> 1..Len(rows)] :
                 /\ \A i, j \in 1..Len(rows) : i # j => q[i] # q[j]
                 /\ \A i, j \in 1..Len(rows) :
                        i < j => rows[q[i]].timestamp >= rows[q[j]].timestamp}}

\* LIMIT ?: a negative limit is no limit
sql_limit(rows, limit) ==
    IF limit < 0 \/ limit >= Len(rows) THEN rows ELSE SubSeq(rows, 1, limit)

\* RelayActivation.get_activations without time or device filter: the
\* answers the query may give
get_activations(limit) == {sql_limit(o, limit) : o \in OrderedByTimestampDesc(alog)}

log_insert_OrReplace(log, row) ==
    IF \E i \in 1..Len(log) : log[i].timestamp = row.timestamp
    THEN [i \in 1..Len(log) |->
             IF log[i].timestamp = row.timestamp THEN row ELSE log[i]]
    ELSE Append(log, row)

\* INSERT INTO relay_activations (...) VALUES (...): one new row, the rows
\* there stay
log_insert(log, row) == Append(log, row)

\* RelayActivation.log_activation (called by the toggle endpoint and by the
\* service-activation endpoint) or ScheduleDaemon.log_activation: one INSERT
LogActivation ==
    /\ Len(alog) < MaxLog
    /\ \E ts \in 0..MaxStamp :
         alog' = log_insert(alog, [id |-> Len(alog) + 1, timestamp |-> ts])
    /\ aout' = NoAnswer
    /\ UNCHANGED <<sysvars, evars, stvars, rvars>>

\* GET /api/relay-activations
GetRelayActivations ==
    /\ \E limit \in Limits : \E rows \in get_activations(limit) :
         aout' = [done |-> TRUE, limit |-> limit, rows |-> rows]
    /\ UNCHANGED <<alog, sysvars, evars, stvars, rvars>>

-----------------------------------------------------------------------------
(* The driver harness: RevPiService called directly, for devices of the    *)
(* device map and for one outside it.  A status read goes step by step:     *)
(* the single-shot piTest -1 -r under subprocess.run(timeout=...), then,    *)
(* after a non-zero exit or a timeout, Popen(piTest -r), readline(),        *)
(* killpg and wait.                                                          *)

\* config_map_revpi
device_map == {"RelayProcessor", "RelayScreen", "LedProcessor", "LedScreen",
               "RelayLight", "LedLight"}

\* the device ids the harness calls the driver with
DriverDevices == {"RelayLight", "RelayScreen", "NoSuchDevice"}

\* outcomes of the single-shot read: piTest missing ("sim0", "sim1"), exit 0
\* with "name:value" output, exit 0 with a value int() rejects, exit 0 with
\* no ":" in the first line, a non-zero exit, TimeoutExpired, any other
\* exception of subprocess.run
SingleReads == {"sim0", "sim1", "value", "unparsable", "noindex",
                "nonzero", "timeout", "exception"}

\* what the child of the fallback does: Popen raises; the child prints a
\* value, prints something else, ends without a line, or neither prints nor
\* ends
FallbackReads == {"exception", "value", "unparsable", "noline", "hang"}

\* the outcome of a whole read, as get_device_status takes it
ReadOutcome(rd, fb) ==
    IF rd \in {"nonzero", "timeout"}
    THEN CASE fb = "value" -> "fb_value"
           [] fb = "unparsable" -> "fb_unparsable"
           [] fb = "noline" -> "fb_noline"
           [] OTHER -> "fb_exception"
    ELSE rd

\* get_device_status, line 57: a device id outside the map
InvalidDeviceStatus == [status |-> "ERROR", simulated |-> FALSE, error |-> TRUE]

\* RevPiService.get_device_status for any device id
read_status(device_id, outcome, rel) ==
    IF device_id \notin device_map THEN InvalidDeviceStatus
    ELSE get_device_status(outcome, rel)

\* RevPiService.toggle_device for any device id
set_state(device_id, wr) ==
    IF device_id \notin device_map
    THEN [success |-> FALSE, simulated |-> FALSE, written |-> FALSE]
    ELSE toggle_device(wr)

\* what no action of the driver harness touches
driverframe == <<clock, device_schedules, schedule_days, next_id, schedules,
                 last_state, last_check_date, evars, stvars, lvars, rvars>>

\* no driver call is under way
DriverFree ==
    IF last.op \in {"read_status", "set_state"} THEN last.pc = "returned" ELSE TRUE

\* a call of toggle_device: subprocess.run returns or raises within
\* command_timeout
DriverSetState ==
    /\ DriverFree
    /\ \E device_id \in DriverDevices, action \in {"on", "off"}, wr \in WriteInputs :
         LET r == set_state(device_id, wr)
         IN  /\ relay' = IF device_id = "RelayLight"
                             THEN RelayAfter(r.written, action) ELSE relay
             /\ last' = [op |-> "set_state", pc |-> "returned", device_id |-> device_id,
                         action |-> action, drv |-> wr, relay_before |-> relay,
                         result |-> r]
    /\ UNCHANGED driverframe

\* a call of get_device_status up to the end of the single-shot read
DriverReadStatus ==
    /\ DriverFree
    /\ \E device_id \in DriverDevices, rd \in SingleReads :
         last' = IF device_id \in device_map /\ rd \in {"nonzero", "timeout"}
                 THEN [op |-> "read_status", pc |-> "popen", device_id |-> device_id,
                       rd |-> rd, fb |-> "none", outcome |-> "none",
                       result |-> InvalidDeviceStatus]
                 ELSE [op |-> "read_status", pc |-> "returned", device_id |-> device_id,
                       rd |-> rd, fb |-> "none", outcome |-> ReadOutcome(rd, "none"),
                       result |-> read_status(device_id, ReadOutcome(rd, "none"), relay)]
    /\ UNCHANGED <<relay, driverframe>>

\* _get_status_with_process_control, lines 97-104: Popen
DriverPopen ==
    /\ last.op = "read_status" /\ last.pc = "popen"
    /\ \E fb \in FallbackReads :
         last' = IF fb = "exception"
                 THEN [last EXCEPT !.pc = "returned", !.fb = fb,
                                   !.outcome = ReadOutcome(last.rd, fb),
                                   !.result = read_status(last.device_id,
                                                  ReadOutcome(last.rd, fb), relay)]
                 ELSE [last EXCEPT !.pc = "readline", !.fb = fb]
    /\ UNCHANGED <<relay, driverframe>>

\* lines 106-126: proc.stdout.readline() returns (a line, or "" at the end
\* of the child's output), then killpg, wait and the answer.  readline takes
\* no timeout: it returns when the child prints or ends.
DriverReadline ==
    /\ last.op = "read_status" /\ last.pc = "readline"
    /\ last.fb # "hang"
    /\ last' = [last EXCEPT !.pc = "returned",
                            !.outcome = ReadOutcome(last.rd, last.fb),
                            !.result = read_status(last.device_id,
                                           ReadOutcome(last.rd, last.fb), relay)]
    /\ UNCHANGED <<relay, driverframe>>

-----------------------------------------------------------------------------
(* The limiter harness: POST /login from one client address, served by the  *)
(* worker processes of gunicorn.  rate_limiter is a module-level object     *)
(* and the workers are forked from the preloaded application, so each       *)
(* worker keeps its own attempts dict.                                       *)

\* the defaults of is_rate_limited, which login() calls with the key alone
max_attempts == 5

window == 300

MaxTicks == 4       \* the harness clock stops after MaxTicks steps

\* the harness clock advances a third of the window at a time
TimeStep == window \div 3

\* the worker processes
Workers == 1..NumConns

\* the list comprehension of lines 137-140
clean_old(list, current_time) ==
    SelectSeq(list, LAMBDA attempt_time : current_time - attempt_time < window)

\* RateLimiter.is_rate_limited on the list of the key: the answer and the
\* list it leaves
is_rate_limited(list, current_time) ==
    LET kept == clean_old(list, current_time)
    IN  IF Len(kept) >= max_attempts
        THEN [limited |-> TRUE, attempts |-> kept]
        ELSE [limited |-> FALSE, attempts |-> Append(kept, current_time)]

\* POST /login served by worker w: 429 when limited
LoginPost(w) ==
    /\ LET r == is_rate_limited(attempts[w], rtime)
       IN  /\ attempts' = [attempts EXCEPT ![w] = r.attempts]
           /\ last' = [op |-> "login", worker |-> w, limited |-> r.limited,
                       before |-> attempts[w],
                       code |-> IF r.limited THEN 429 ELSE 200]
    /\ UNCHANGED <<rtime, clock, device_schedules, schedule_days, next_id, schedules,
                   relay, last_state, last_check_date, evars, stvars, lvars>>

\* time passes between two requests
LimiterTime ==
    /\ rtime < MaxTicks * TimeStep
    /\ rtime' = rtime + TimeStep
    /\ last' = [op |-> "none"]
    /\ UNCHANGED <<attempts, clock, device_schedules, schedule_days, next_id, schedules,
                   relay, last_state, last_check_date, evars, stvars, lvars>>

-----------------------------------------------------------------------------
(* Specifications *)

InitSys ==
    /\ clock = [date |-> 0, h |-> 0, m |-> 0]
    /\ device_schedules = {}
    /\ schedule_days = <<>>
    /\ next_id = 1
    /\ schedules = None
    /\ last_state = "None"
    /\ last_check_date = NoDate
    /\ last = Idle

InitHarness ==
    /\ esched = None
    /\ enow = [date |-> 0, h |-> 0, m |-> 0]
    /\ ecur = NoEval
    /\ eprev = NoEval

InitStore ==
    /\ conns = [c \in Conns |-> IdleConn]
    /\ wtx = NoTx
    /\ saved = [i \in 1..MaxRows |-> <<>>]

InitLog ==
    /\ alog = <<>>
    /\ aout = NoAnswer

InitLimiter ==
    /\ attempts = [w \in Workers |-> <<>>]
    /\ rtime = 0

Init == InitSys /\ relay \in {"ON", "OFF"} /\ InitHarness /\ InitStore /\ InitLog /\ InitLimiter

Next ==
    \/ ClockAdvance
    \/ SaveSchedule
    \/ EnableSchedule
    \/ DeleteSchedule
    \/ LegacyWrite
    \/ RevpiToggle
    \/ CheckSchedule
    \/ DaemonTick

\* the system as the repository composes it
Spec == Init /\ [][Next]_vars

NextApi ==
    \/ ClockAdvance
    \/ SaveSchedule
    \/ EnableSchedule
    \/ DeleteSchedule
    \/ LegacyWrite
    \/ RevpiToggleApi
    \/ CheckSchedule
    \/ DaemonTickApi

\* the same system with an API server that executes the daemon's requests
SpecApi == Init /\ [][NextApi]_vars

InitEval ==
    /\ InitSys
    /\ relay = "OFF"
    /\ esched \in EvalSchedules
    /\ enow \in Instants
    /\ ecur = NoEval
    /\ eprev = NoEval
    /\ InitStore
    /\ InitLog /\ InitLimiter

NextEval == Evaluate \/ EvalAdvance

\* both evaluators as pure functions of (schedule, instant)
SpecEval == InitEval /\ [][NextEval]_vars

InitStoreSpec == InitSys /\ relay = "OFF" /\ InitHarness /\ InitStore /\ InitLog /\ InitLimiter

NextStore ==
    \/ \E c \in Conns : StoreSaveRequest(c)
    \/ \E c \in Conns : SaveWriteRow(c)
    \/ \E c \in Conns : SaveDeleteDays(c)
    \/ \E c \in Conns : SaveInsertDay(c)
    \/ \E c \in Conns : SaveCommit(c)
    \/ \E c \in Conns : SaveFail(c)
    \/ \E c \in Conns : StoreDelete(c)
    \/ \E c \in Conns : StoreEnable(c)
    \/ \E c \in Conns : StoreGetRow(c)
    \/ \E c \in Conns : StoreGetDays(c)

\* the Schedule store under NumConns concurrent requests
SpecStore == InitStoreSpec /\ [][NextStore]_vars

NextSave == ServiceSave \/ DeleteSchedule

\* the save service over a store that one connection at a time uses
SpecSave == InitStoreSpec /\ [][NextSave]_vars

NextDriver == DriverSetState \/ DriverReadStatus \/ DriverPopen \/ DriverReadline

\* the device driver, one call at a time
SpecDriver == Init /\ [][NextDriver]_vars

\* the same with every step of a call that can be taken eventually taken
SpecDriverFair == SpecDriver /\ WF_vars(DriverPopen) /\ WF_vars(DriverReadline)

NextLimiter == (\E w \in Workers : LoginPost(w)) \/ LimiterTime

\* the login rate limiter in the worker processes
SpecLimiter == Init /\ [][NextLimiter]_vars

NextLog == LogActivation \/ GetRelayActivations

\* the activation log and its list query
SpecLog == InitStoreSpec /\ [][NextLog]_vars

-----------------------------------------------------------------------------
(* Properties of the two evaluators, checked under SpecEval *)

\* minutes since midnight that a well-formed "HH:MM" denotes, found by search
\* over the clock faces rather than by the parser
MinuteOf(s) ==
    LET p == CHOOSE q \in (0..MaxHour) \X (0..MaxMinute) : FmtTime(q[1], q[2]) = s
    IN  60 * p[1] + p[2]

\* e is an evaluation of an enabled schedule with well-formed times, made on
\* a weekday of its day list
EvalCase(e) ==
    /\ e.done
    /\ esched.present /\ esched.enabled
    /\ esched.start_time \in TimeStrings /\ esched.end_time \in TimeStrings
    /\ InList(e.wd, esched.days)

EvalNow(e) == 60 * e.h + e.m

\* C1: for an enabled schedule with start < end, on a weekday of its day
\* list, the daemon's should_light_be_on and the on-demand check both compute
\* 'on' exactly when start <= now < end; at now = end both compute 'off'.
C1_DaytimeWindow ==
    (EvalCase(ecur) /\ MinuteOf(esched.start_time) < MinuteOf(esched.end_time)) =>
        LET inside == /\ MinuteOf(esched.start_time) <= EvalNow(ecur)
                      /\ EvalNow(ecur) < MinuteOf(esched.end_time)
        IN  /\ ecur.d = (IF inside THEN "on" ELSE "off")
            /\ ecur.c = (IF inside THEN "on" ELSE "off")

\* C1 witness: both evaluators are asked at now = end of a daytime window
C1_AtEndOff ==
    /\ EvalCase(ecur)
    /\ MinuteOf(esched.start_time) < MinuteOf(esched.end_time)
    /\ EvalNow(ecur) = MinuteOf(esched.end_time)
    /\ ecur.d = "off" /\ ecur.c = "off"

\* the last minute of one day evaluated, then the first minute of the next,
\* both weekdays in the day list of an overnight schedule
MidnightCase ==
    /\ EvalCase(eprev) /\ EvalCase(ecur)
    /\ MinuteOf(esched.start_time) > MinuteOf(esched.end_time)
    /\ eprev.h = MaxHour /\ eprev.m = MaxMinute
    /\ ecur.h = 0 /\ ecur.m = 0

OvernightRule ==
    (EvalCase(ecur) /\ MinuteOf(esched.start_time) > MinuteOf(esched.end_time)) =>
        LET inside == \/ EvalNow(ecur) >= MinuteOf(esched.start_time)
                      \/ EvalNow(ecur) < MinuteOf(esched.end_time)
        IN  /\ ecur.d = (IF inside THEN "on" ELSE "off")
            /\ ecur.c = (IF inside THEN "on" ELSE "off")

AllOn == eprev.d = "on" /\ eprev.c = "on" /\ ecur.d = "on" /\ ecur.c = "on"

\* C2 (as stated): for an enabled overnight schedule (start > end), on a
\* weekday of its day list, both evaluators compute 'on' exactly when
\* now >= start or now < end; and with both adjacent weekdays in the day list
\* the result is 'on' on both sides of midnight.
C2_OvernightStaysOn ==
    /\ OvernightRule
    /\ MidnightCase => AllOn

\* C2 (amended): the same, the result staying 'on' across midnight when the
\* end is later than 00:00.
C2_Overnight ==
    /\ OvernightRule
    /\ (MidnightCase /\ MinuteOf(esched.end_time) > 0) => AllOn

\* C2 witness: 'on' on both sides of midnight in an overnight window
C2_OnAcrossMidnight ==
    MidnightCase /\ MinuteOf(esched.end_time) > 0 /\ AllOn

\* C3: for an enabled schedule with start_time = end_time, on a weekday of
\* its day list, both evaluators compute 'on' at every time of day.
C3_ZeroLengthAlwaysOn ==
    (EvalCase(ecur) /\ esched.start_time = esched.end_time) =>
        ecur.d = "on" /\ ecur.c = "on"

-----------------------------------------------------------------------------
(* Properties of the reconciliation passes, checked under Spec and SpecApi *)

\* the relay state a command asks for
Up(cmd) == IF cmd = "on" THEN "ON" ELSE "OFF"

\* the last handler run was a reconciliation pass that fetched a disabled
\* schedule
DisabledPass ==
    /\ last.op \in {"check", "tick"}
    /\ last.fetched.present /\ ~last.fetched.enabled

\* the last handler run was a daemon tick that fetched an enabled schedule
EnabledTick ==
    last.op = "tick" /\ last.fetched.present /\ last.fetched.enabled

\* C4 (as stated): a reconciliation pass that finds the schedule of
\* RelayLight disabled issues no toggle command, whatever the relay state and
\* whatever the daemon remembers.
C4_DisabledIssuesNothing == DisabledPass => last.cmd = "none"

\* C4 (amended): with the schedule disabled an on-demand check issues no
\* command; a daemon tick issues no 'on', and issues 'off' exactly when the
\* state it remembers is 'on'.
C4_DisabledInert ==
    DisabledPass =>
        IF last.op = "check" THEN last.cmd = "none"
        ELSE last.cmd = (IF last.pre_state = "on" THEN "off" ELSE "none")

\* C4 witness: a tick finds the schedule disabled while it remembers 'on'
C4_DisabledTickOff ==
    DisabledPass /\ last.op = "tick" /\ last.pre_state = "on" /\ last.cmd = "off"

\* C5: an on-demand check that reads the relay issues a command if and only
\* if the desired state differs from the state it read, and the command is
\* the desired state.
C5_ToggleIffMismatch ==
    (last.op = "check" /\ last.status # "unread") =>
        /\ (last.cmd # "none") <=> (Up(last.desired) # last.status)
        /\ last.cmd # "none" => last.cmd = last.desired

\* C6: a daemon tick with an enabled schedule and no day rollover issues a
\* command if and only if the desired state differs from last_state, and the
\* command is the desired state; the relay is not consulted.
C6_TickComparesLastState ==
    (EnabledTick /\ ~last.rollover) =>
        /\ (last.cmd # "none") <=> (last.desired # last.pre_state)
        /\ last.cmd # "none" => last.cmd = last.desired

\* C6 witness: the desired state equals last_state and no command is issued,
\* although the relay is in the other state
C6_NoCommandRelayDiffers ==
    /\ EnabledTick /\ ~last.rollover
    /\ last.desired = last.pre_state /\ last.cmd = "none"
    /\ relay # Up(last.desired)

\* C7 (as stated): the first daemon tick on a date other than the
\* last-checked date issues a command.
C7_NewDateIssuesCommand ==
    (last.op = "tick" /\ last.new_date) => last.cmd # "none"

\* C7 (amended): a daemon tick that fetches an enabled schedule on a date
\* other than the last-checked date issues a command asserting the desired
\* state, even when that is the state it last commanded.
C7_RolloverReasserts ==
    (EnabledTick /\ last.rollover) =>
        last.cmd = last.desired /\ last.cmd \in {"on", "off"}

\* C7 witness: a rollover tick re-asserts the state the daemon remembered
C7_ReassertsSameState ==
    /\ EnabledTick /\ last.rollover
    /\ last.pre_state = last.desired /\ last.cmd = last.desired

\* C8: a daemon tick fetches exactly the record the store's get returns for
\* RelayLight.
C8_TickFetchesStoredRecord ==
    last.op = "tick" => last.fetched = get_schedule("RelayLight")

\* C9: a tick that follows an out-of-band change of the relay, with an
\* enabled schedule and a working driver, leaves the relay in the scheduled
\* state.
C9_TickRestoresRelay ==
    (EnabledTick /\ last.after_manual /\ last.drv = "ok") =>
        relay = Up(last.desired)

\* C10: a daemon toggle that fails leaves last_state as it was before the
\* tick (ticks without a day rollover, which clears last_state by itself).
C10_FailedToggleKeepsState ==
    (last.op = "tick" /\ last.cmd # "none" /\ ~last.ok /\ ~last.rollover) =>
        last_state = last.pre_state

-----------------------------------------------------------------------------
(* The two reconciliation passes compared, checked under SpecEval *)

\* C11: for a schedule record that is absent, disabled, or enabled with a
\* non-empty day list, at every instant and relay state, with the daemon's
\* last_state equal to the relay state and no day rollover, one on-demand
\* check and one daemon tick issue the same toggle command, or both none.
C11_CheckAndTickAgree ==
    (ecur.done /\ ((esched.present /\ esched.enabled) => Len(esched.days) # 0)) =>
        \A rel \in Relays : ecur.cc[rel] = ecur.tc[rel]

\* an evaluation of an enabled schedule with well-formed times and an empty
\* day list
EmptyDaysCase ==
    /\ ecur.done
    /\ esched.present /\ esched.enabled
    /\ esched.start_time \in TimeStrings /\ esched.end_time \in TimeStrings
    /\ Len(esched.days) = 0

\* C12 (as stated): with an empty day list the on-demand check treats today
\* as never matching (it never computes 'on' nor turns the relay on), while
\* the daemon treats every day as matching.
C12_CheckNeverMatchesEmptyDays ==
    EmptyDaysCase =>
        /\ ecur.c # "on"
        /\ \A rel \in Relays : ecur.cc[rel] # "on"
        /\ ecur.d = (IF should_light_be_on([esched EXCEPT !.days = day_map], enow, enow)
                     THEN "on" ELSE "off")

\* C12 (amended): with an empty day list the on-demand check and the daemon
\* both treat every day as matching: each computes what it computes for the
\* same schedule with all seven weekdays listed.
C12_EmptyDaysMatchEveryDay ==
    EmptyDaysCase =>
        /\ ecur.c = check_desired([esched EXCEPT !.days = day_map], enow, enow)
        /\ ecur.c \in {"on", "off"}
        /\ ecur.d = (IF should_light_be_on([esched EXCEPT !.days = day_map], enow, enow)
                     THEN "on" ELSE "off")

\* C12 witness: with an empty day list, inside the window, both compute 'on'
\* and the check turns a relay that is off on
C12_EmptyDaysOn ==
    EmptyDaysCase /\ ecur.c = "on" /\ ecur.d = "on" /\ ecur.cc["OFF"] = "on"

-----------------------------------------------------------------------------
(* The activation log, checked under Spec.  The log is append-only and no   *)
(* modelled handler reads it, so the system keeps the rows appended by the  *)
(* last handler run (last.logged) and not the table as a whole.             *)

\* a handler run whose toggle command reached the relay
ToggleExecuted == last.op \in {"toggle", "check", "tick"} /\ last.written

\* C18: every handler run that executes a toggle command on the relay (the
\* toggle endpoint, the on-demand check or a daemon tick) appends exactly one
\* activation row, for device RelayLight and the commanded action.
C18_ExecutedToggleLoggedOnce ==
    ToggleExecuted =>
        /\ Len(last.logged) = 1
        /\ last.logged[1].device_id = "RelayLight"
        /\ last.logged[1].action = last.cmd

\* a request to the toggle endpoint that reached the driver and whose
\* activation-log insert failed
ToggleLogFailed == last.op = "toggle" /\ last.code # 302 /\ Len(last.logged) = 0

\* C19: when the activation-log insert of a toggle request fails, the
\* endpoint answers with the driver's result: success and 200 when the
\* driver succeeded, failure and 500 when it did not.
C19_LogFailureKeepsResponse ==
    ToggleLogFailed =>
        /\ last.ok = toggle_device(last.drv).success
        /\ last.code = (IF toggle_device(last.drv).success THEN 200 ELSE 500)

\* C19 witness: the driver wrote the relay, the insert failed, and the
\* endpoint answered success with 200
C19_SuccessDespiteLogFailure ==
    ToggleLogFailed /\ last.written /\ last.ok /\ last.code = 200

-----------------------------------------------------------------------------
(* The Schedule store under concurrent requests, checked under SpecStore *)

\* the committed tables of the store
tables == <<device_schedules, schedule_days, next_id>>

\* the answer to a save that committed directly after another committed save
SecondSave == last.op = "save" /\ last.result = "ok" /\ last.second

\* C13: after two successive successful saves for one device the store holds
\* exactly one row for the device, with the fields of the second save, and
\* get returns the day list of the second save.
C13_SecondSaveReplacesFirst ==
    SecondSave =>
        /\ Cardinality(RowsOf(last.req.device_id)) = 1
        /\ get_schedule(last.req.device_id) =
               [present |-> TRUE, start_time |-> last.req.start_time,
                end_time |-> last.req.end_time, days |-> last.req.days,
                enabled |-> last.req.enabled]

\* C14: in every reachable state, whatever the interleaving of the save
\* requests of the connections, device_schedules holds at most one row per
\* device_id.
C14_OneRowPerDevice ==
    \A device_id \in Devices : Cardinality(RowsOf(device_id)) <= 1

\* C15: a save that fails, at whatever statement, leaves the committed
\* tables as they were; and a get that finds a schedule returns as its days
\* the complete day list of the last committed save for that schedule id, as
\* it stood when the get read the row or as it stands when it reads the days.
C15_FailedSaveAtomic ==
    [][/\ (last'.op = "save" /\ last'.result = "DATABASE_ERROR") => UNCHANGED tables
       /\ (last'.op = "get" /\ last'.found) =>
              last'.days \in {last'.old_days, last'.new_days}]_vars

\* C15 witness: a save failed after it had replaced the row's days by the
\* first of its two days, and the committed tables hold the row with the
\* complete day list of the save before
C15_FailedPartWay ==
    /\ last.op = "save" /\ last.result = "DATABASE_ERROR"
    /\ last.stage = "days" /\ last.k = 1 /\ Len(last.req.days) = 2
    /\ RowsOf(last.req.device_id) # {}
    /\ get_schedule(last.req.device_id).days = <<"tue">>

\* C17: a delete for a device that has no stored schedule is answered with
\* RECORD_NOT_FOUND and leaves every schedule row and day row as it was.
C17_DeleteAbsentNotFound ==
    [][(last'.op = "delete" /\ ~last'.had_row) =>
           (last'.result = "RECORD_NOT_FOUND" /\ UNCHANGED tables)]_vars

\* C17 witness: a delete found no schedule row while day rows of an earlier
\* schedule are stored
C17_NotFoundWithDayRows ==
    /\ last.op = "delete" /\ ~last.had_row /\ last.result = "RECORD_NOT_FOUND"
    /\ Len(schedule_days) > 0

-----------------------------------------------------------------------------
(* Validation of save requests, checked under SpecSave *)

ValidationCodes == {"MISSING_PARAMETER", "INVALID_TIME_FORMAT",
                    "INVALID_DATE_RANGE", "VALIDATION_ERROR"}

\* a request the contract wants rejected: a time the validator does not
\* accept, an end time of day not after the start time of day, a day outside
\* mon..sun, or no day
BadRequest(req) ==
    \/ ~validate_time_format(req.start_time)
    \/ ~validate_time_format(req.end_time)
    \/ ~TimeLT(ParseTime(req.start_time), ParseTime(req.end_time))
    \/ \E i \in 1..Len(req.days) : req.days[i] \notin valid_days
    \/ Len(req.days) = 0

\* C16: a save request with a malformed time, an end time not after the
\* start time, a day outside mon..sun or an empty day list is answered with a
\* validation error code and leaves the tables as they were; every other
\* request reaches the store (it is answered with success or with a
\* database error).
C16_ValidationRejectsExactlyBad ==
    [][last'.op = "save" =>
           IF BadRequest(last'.req)
           THEN last'.result \in ValidationCodes /\ UNCHANGED tables
           ELSE last'.result \notin ValidationCodes]_vars

-----------------------------------------------------------------------------
(* The list query of the activation log, checked under SpecLog *)

\* C20: whatever the log holds and whatever limit the caller passes, the
\* list query returns at most limit rows, in strictly descending timestamp
\* order.
C20_AtMostLimitStrictlyDescending ==
    aout.done =>
        /\ Len(aout.rows) <= aout.limit
        /\ \A i, j \in 1..Len(aout.rows) :
               i < j => aout.rows[i].timestamp > aout.rows[j].timestamp

\* C21: no step changes or removes a row of the activation log: the log
\* after the step begins with the log before it, row for row.
C21_LogAppendOnly ==
    [][/\ Len(alog') >= Len(alog)
       /\ SubSeq(alog', 1, Len(alog)) = alog]_vars

\* C21 witness: the log holds two rows with the same timestamp, both as
\* they were inserted, and has been queried
C21_RowsKeptAfterQuery ==
    /\ aout.done
    /\ Len(alog) >= 2
    /\ alog[1].timestamp = alog[2].timestamp
    /\ alog[1].id = 1 /\ alog[2].id = 2

\* C26: every schedule row stored through the save service has a start time
\* of day strictly earlier than its end time of day, so that no evaluator
\* takes its overnight branch for a stored schedule.
C26_StoredStartBeforeEnd ==
    \A r \in device_schedules :
        TimeLT(ParseTime(r.start_time), ParseTime(r.end_time))

\* a schedule operation (get, set_enabled, delete) has been answered and
\* whether it found a schedule of the device
ScheduleLookup == last.op \in {"get", "enable", "delete"}

FoundSchedule == IF last.op = "get" THEN last.found ELSE last.had_row

\* C25: a get, set_enabled or delete is answered with HTTP 404 exactly when
\* the device has no schedule: 404 whenever none is found, and never 404
\* when one is stored.
C25_NotFoundIff404 == ScheduleLookup => (last.http = 404 <=> ~FoundSchedule)

\* C27: one evaluation takes the weekday, the time of day and (in the daemon)
\* the rollover date from one reading of the clock: the clock value the
\* weekday was taken from is the one the run's last reading gave, so all the
\* readings lie on one calendar day.
C27_OneClockReading ==
    [][last'.op \in {"check", "tick"} => clock'.date = clock.date]_vars

\* a request has reached the device driver's toggle_device
DriverCalled ==
    \/ last.op = "check" /\ last.cmd # "none"
    \/ last.op = "toggle" /\ last.code \notin {302, 400}

\* C28: a request reaches the device driver's toggle only when it carries an
\* authenticated, unexpired login session.
C28_NoToggleWithoutLogin == DriverCalled => last.authed

\* C29: a toggle the daemon commands while the driver works is executed by
\* the endpoint: toggle_relay returns true, last_state is the commanded state
\* and the relay is in it.
C29_DaemonToggleExecuted ==
    (last.op = "tick" /\ last.cmd # "none" /\ last.drv = "ok") =>
        (last.ok /\ last_state = last.cmd /\ relay = Up(last.cmd))

\* the calls of the first n workers that answered 'not limited' less than a
\* window ago: a call is recorded exactly when it is not limited, and a
\* recorded time is dropped only once it is a window old
RECURSIVE RecentAllowed(_)
RecentAllowed(n) ==
    IF n = 0 THEN 0
    ELSE Len(clean_old(attempts[n], rtime)) + RecentAllowed(n - 1)

\* C30: in every span shorter than the window at most max_attempts login
\* attempts of the key are answered 'not limited'.
C30_AtMostMaxAllowedPerWindow == RecentAllowed(NumConns) <= max_attempts

\* within one worker process the bound holds
LimiterBoundPerWorker ==
    \A w \in Workers : Len(clean_old(attempts[w], rtime)) <= max_attempts

\* a limited call leaves the list as cleaning alone leaves it
LimitedNotRecorded ==
    (last.op = "login" /\ last.limited) =>
        attempts[last.worker] = clean_old(last.before, rtime)

-----------------------------------------------------------------------------
(* The device driver, checked under SpecDriver and SpecDriverFair *)

\* a call of toggle_device that found no piTest
SetStateNoBinary == last.op = "set_state" /\ last.drv = "sim"

\* what the contract asks of such a call: success, marked simulated, no
\* write command run and the relay as before
SimulatedSuccess ==
    /\ last.result.success /\ last.result.simulated
    /\ ~last.result.written /\ relay = last.relay_before

\* C22 (as stated): whenever piTest is not resolvable, toggle_device returns
\* success with simulated = true and runs no write command, for any device
\* id and either action.
C22_UnavailableAlwaysSimulated == SetStateNoBinary => SimulatedSuccess

\* C22 (amended): whenever piTest is not resolvable, toggle_device returns
\* success with simulated = true and runs no write command for every device
\* id of the device map and either action; for a device id outside the map
\* it returns failure, not simulated, and runs no write command either.
C22_UnavailableSimulatedForMapped ==
    SetStateNoBinary =>
        IF last.device_id \in device_map THEN SimulatedSuccess
        ELSE /\ ~last.result.success /\ ~last.result.simulated
             /\ ~last.result.written /\ relay = last.relay_before

\* C22 witness: RelayLight told to go off without piTest: success,
\* simulated, and the relay still on
C22_SimulatedOffRelayOn ==
    /\ SetStateNoBinary /\ last.device_id = "RelayLight" /\ last.action = "off"
    /\ SimulatedSuccess /\ relay = "ON"

\* a status read that has returned after a failure: any outcome but a value
\* (simulated, single-shot or fallback)
FailedRead ==
    /\ last.op = "read_status" /\ last.pc = "returned"
    /\ last.device_id \in device_map
    /\ last.outcome \notin {"sim0", "sim1", "value", "fb_value"}

\* C23: every failed status read returns status ERROR together with a
\* message.
C23_FailedReadIsErrorWithMessage ==
    FailedRead => (last.result.status = "ERROR" /\ last.result.error)

\* a driver call has been entered and has not returned
DriverCallRunning ==
    last.op \in {"read_status", "set_state"} /\ last.pc # "returned"

DriverCallReturned ==
    last.op \in {"read_status", "set_state"} /\ last.pc = "returned"

\* C24: every driver call returns, whatever the external command does.
C24_EveryCallReturns == DriverCallRunning ~> DriverCallReturned

=============================================================================
